---- MODULE Spec2Model ----
(***************************************************************************)
(* A model of the ljson interpreter (src/src/interpreter.ts): the heap of  *)
(* JavaScript objects the host and the scripts share, the process-wide     *)
(* rawValues set, and execute() with its five command implementations.     *)
(* JavaScript strings are TLA+ strings; characters are one-letter strings. *)
(***************************************************************************)
EXTENDS Integers, Sequences, FiniteSets, TLC

(***************************************************************************)
(* Strings                                                                 *)
(***************************************************************************)
\* String.prototype.slice(i-1, j), safe outside the string
Slice(s, i, j) ==
  IF i > j \/ i > Len(s) \/ j < 1 THEN ""
  ELSE SubSeq(s, IF i < 1 THEN 1 ELSE i, IF j > Len(s) THEN Len(s) ELSE j)

CharAt(s, i) == Slice(s, i, i)

\* String.prototype.startsWith
StartsWith(s, p) == Len(s) >= Len(p) /\ Slice(s, 1, Len(p)) = p

\* String.prototype.substring(n)
Substring(s, n) == Slice(s, n + 1, Len(s))

Digits == {"0", "1", "2", "3", "4", "5", "6", "7", "8", "9"}

\* the characters of the model's alphabet that do not match \w
NonWord == {".", "[", "]", "'", "$", " ", "\""}

Brackets == {".", "[", "]"}

Quotes == {"'", "\""}

\* first position >= i whose character is in set S, or Len(s)+1
RECURSIVE FindIn(_, _, _)
FindIn(s, i, S) ==
  IF i > Len(s) THEN Len(s) + 1
  ELSE IF CharAt(s, i) \in S THEN i
  ELSE FindIn(s, i + 1, S)

\* first position >= i whose character is NOT in set S, or Len(s)+1
RECURSIVE FindNotIn(_, _, _)
FindNotIn(s, i, S) ==
  IF i > Len(s) THEN Len(s) + 1
  ELSE IF CharAt(s, i) \notin S THEN i
  ELSE FindNotIn(s, i + 1, S)

\* Array.prototype.join('.')
RECURSIVE JoinDot(_)
JoinDot(chunks) ==
  IF Len(chunks) = 0 THEN ""
  ELSE IF Len(chunks) = 1 THEN chunks[1]
  ELSE chunks[1] \o "." \o JoinDot(Tail(chunks))

(***************************************************************************)
(* lodash paths (import of interpreter.ts line 1): stringToPath, isKey,    *)
(* isIndex, as lodash 4.17 defines them.                                   *)
(***************************************************************************)
\* rePropName, second alternative: a bracketed number or quoted string at i.
\* Returns <<key, next position>> or <<>> when it does not match.
BracketMatch(s, i) ==
  IF i + 1 > Len(s) THEN <<>>
  ELSE IF CharAt(s, i + 1) \in Digits THEN
    LET e == FindNotIn(s, i + 1, Digits) IN
      IF e <= Len(s) /\ CharAt(s, e) = "]"
        THEN <<Slice(s, i + 1, e - 1), e + 1>> ELSE <<>>
  ELSE IF CharAt(s, i + 1) \in Quotes THEN
    LET e == FindIn(s, i + 2, {CharAt(s, i + 1)}) IN
      IF e + 1 <= Len(s) /\ CharAt(s, e + 1) = "]"
        THEN <<Slice(s, i + 2, e - 1), e + 2>> ELSE <<>>
  ELSE <<>>

\* rePropName, third alternative: the zero-width match before "." or "[]"
\* that is itself followed by ".", "[]" or the end of the string.
EmptyMatch(s, i) ==
  LET after == IF CharAt(s, i) = "." THEN i + 1
               ELSE IF Slice(s, i, i + 1) = "[]" THEN i + 2
               ELSE 0
  IN  /\ after # 0
      /\ \/ after > Len(s)
         \/ CharAt(s, after) = "."
         \/ Slice(s, after, after + 1) = "[]"

RECURSIVE ScanPath(_, _, _)
ScanPath(s, i, acc) ==
  IF i > Len(s) THEN acc
  ELSE IF CharAt(s, i) \notin Brackets THEN
    LET e == FindIn(s, i, Brackets) IN
      ScanPath(s, e, Append(acc, Slice(s, i, e - 1)))
  ELSE IF CharAt(s, i) = "[" /\ BracketMatch(s, i) # <<>> THEN
    ScanPath(s, BracketMatch(s, i)[2], Append(acc, BracketMatch(s, i)[1]))
  ELSE IF EmptyMatch(s, i) THEN ScanPath(s, i + 1, Append(acc, ""))
  ELSE ScanPath(s, i + 1, acc)

\* lodash stringToPath, which is also toPath() of a string
stringToPath(s) ==
  ScanPath(s, 1, IF Len(s) > 0 /\ CharAt(s, 1) = "." THEN <<"">> ELSE <<>>)

toPath(s) == stringToPath(s)

\* reIsPlainProp = /^\w*$/
IsPlainProp(s) == \A i \in 1..Len(s) : CharAt(s, i) \notin NonWord

\* reIsDeepProp = /\.|\[(?:[^[\]]*|(["'])(?:(?!\1)[^\\]|\\.)*?\1)\]/
IsDeepProp(s) ==
  \E i \in 1..Len(s) :
    \/ CharAt(s, i) = "."
    \/ /\ CharAt(s, i) = "["
       /\ \/ LET e == FindIn(s, i + 1, {"[", "]"}) IN
               e <= Len(s) /\ CharAt(s, e) = "]"
          \/ /\ i + 1 <= Len(s)
             /\ CharAt(s, i + 1) \in Quotes
             /\ \E e \in (i + 2)..(Len(s) - 1) :
                  CharAt(s, e) = CharAt(s, i + 1) /\ CharAt(s, e + 1) = "]"

\* lodash isIndex for string keys: /^(?:0|[1-9]\d*)$/
isIndex(k) ==
  /\ Len(k) > 0
  /\ \A i \in 1..Len(k) : CharAt(k, i) \in Digits
  /\ (Len(k) = 1 \/ CharAt(k, 1) # "0")

\* keys lodash set() refuses to write
UnsafeKeys == {"__proto__", "constructor", "prototype"}

(***************************************************************************)
(* JavaScript values and the heap.  A value is undefined, a number, a      *)
(* string or a reference to a heap object; heap objects are plain objects, *)
(* arrays, host (native) functions and the functions lambda creates.       *)
(***************************************************************************)
Undef  == [k |-> "undef", n |-> 0, s |-> ""]
Num(i) == [k |-> "num", n |-> i, s |-> ""]
Str(x) == [k |-> "str", n |-> 0, s |-> x]
Ref(i) == [k |-> "ref", n |-> i, s |-> ""]

NoProps == [x \in {} |-> Undef]

IdxStr == <<"0", "1", "2", "3", "4", "5", "6", "7", "8", "9">>

\* numeric value of a one-digit index key
IdxNum(key) == CHOOSE i \in 0..9 : IdxStr[i + 1] = key

\* the heap ids of the objects every realm has
ObjProto == 1

MkObj(kind, props, len, code, ctx, params, body) ==
  [kind |-> kind, props |-> props, proto |-> ObjProto, len |-> len,
   code |-> code, ctx |-> ctx, params |-> params, body |-> body]

PlainObject(props) == MkObj("object", props, 0, "", 0, Undef, Undef)
ArrayObject(props, len) == MkObj("array", props, len, "", 0, Undef, Undef)
NativeFn(code) == MkObj("native", NoProps, 0, code, 0, Undef, Undef)
LambdaFn(ctx, params, body) == MkObj("lambda", NoProps, 0, "", ctx, params, body)

IsRef(v) == v.k = "ref"
\* value == null (undefined or null)
IsNullish(v) == v.k = "undef"
\* typeof v === 'function'
IsFunction(h, v) == IsRef(v) /\ h[v.n].kind \in {"native", "lambda"}
\* Array.isArray(v)
IsArray(h, v) == IsRef(v) /\ h[v.n].kind = "array"
\* typeof v === 'string'
IsString(v) == v.k = "str"
\* ToBoolean(v)
Truthy(v) ==
  CASE v.k = "undef" -> FALSE
    [] v.k = "num" -> v.n # 0
    [] v.k = "str" -> v.s # ""
    [] OTHER -> TRUE

\* ToPropertyKey(v) for the values of the model
ToKey(h, v) ==
  CASE v.k = "str" -> v.s
    [] v.k = "num" -> IF v.n \in 0..9 THEN IdxStr[v.n + 1] ELSE "NaN"
    [] v.k = "undef" -> "undefined"
    [] OTHER -> IF h[v.n].kind = "array" THEN "" ELSE "[object Object]"

\* key in object, along the prototype chain
RECURSIVE HasProp(_, _, _)
HasProp(h, id, key) ==
  IF id = 0 THEN FALSE
  ELSE IF key \in DOMAIN h[id].props THEN TRUE
  ELSE HasProp(h, IF id = ObjProto THEN 0 ELSE h[id].proto, key)

\* object[key] on a heap object, along the prototype chain
RECURSIVE Lookup(_, _, _)
Lookup(h, id, key) ==
  IF id = 0 THEN Undef
  ELSE IF key \in DOMAIN h[id].props THEN h[id].props[key]
  ELSE IF key = "length" /\ h[id].kind = "array" THEN Num(h[id].len)
  ELSE Lookup(h, IF id = ObjProto THEN 0 ELSE h[id].proto, key)

\* v[key] for any value that is not null or undefined
GetProp(h, v, key) ==
  CASE v.k = "ref" -> Lookup(h, v.n, key)
    [] v.k = "str" ->
         IF key = "length" THEN Num(Len(v.s))
         ELSE IF isIndex(key) /\ Len(key) = 1 /\ IdxNum(key) < Len(v.s)
           THEN Str(CharAt(v.s, IdxNum(key) + 1))
         ELSE Undef
    [] OTHER -> Undef

\* object[key] = value
PutProp(h, id, key, value) ==
  [h EXCEPT ![id] =
     [@ EXCEPT !.props = [x \in DOMAIN @ \cup {key} |->
                            IF x = key THEN value ELSE @[x]],
               !.len = IF h[id].kind = "array" /\ isIndex(key) /\ Len(key) = 1
                          /\ IdxNum(key) >= @
                         THEN IdxNum(key) + 1 ELSE @]]

\* the id a newly created object gets
NewId(h) == Len(h) + 1

(***************************************************************************)
(* lodash get and set (import of interpreter.ts line 1)                    *)
(***************************************************************************)
\* lodash isKey(value, object) for a string value
isKey(h, path, object) ==
  \/ IsPlainProp(path)
  \/ ~IsDeepProp(path)
  \/ (IsRef(object) /\ HasProp(h, object.n, path))

castPath(h, path, object) ==
  IF isKey(h, path, object) THEN <<path>> ELSE stringToPath(path)

RECURSIVE baseGet(_, _, _, _)
baseGet(h, object, path, index) ==
  IF IsNullish(object) THEN Undef
  ELSE IF index > Len(path) THEN (IF Len(path) = 0 THEN Undef ELSE object)
  ELSE baseGet(h, GetProp(h, object, path[index]), path, index + 1)

\* _.get(object, path) with a string path
LodashGet(h, object, path) ==
  IF IsNullish(object) THEN Undef
  ELSE baseGet(h, object, castPath(h, path, object), 1)

RECURSIVE baseSet(_, _, _, _, _)
baseSet(h, nested, path, index, value) ==
  IF index > Len(path) \/ ~IsRef(nested) THEN h
  ELSE IF path[index] \in UnsafeKeys THEN h
  ELSE IF index = Len(path) THEN PutProp(h, nested.n, path[index], value)
  ELSE
    LET objValue == GetProp(h, nested, path[index])
        fresh    == IF isIndex(path[index + 1])
                      THEN ArrayObject(NoProps, 0) ELSE PlainObject(NoProps)
        h1       == IF IsRef(objValue) THEN h ELSE Append(h, fresh)
        newValue == IF IsRef(objValue) THEN objValue ELSE Ref(NewId(h))
    IN  baseSet(PutProp(h1, nested.n, path[index], newValue),
                newValue, path, index + 1, value)

\* _.set(object, path, value) with a string path; returns the new heap
LodashSet(h, object, path, value) ==
  IF ~IsRef(object) THEN h
  ELSE baseSet(h, object, castPath(h, path, object), 1, value)

(***************************************************************************)
(* Bounds                                                                  *)
(***************************************************************************)
\* nesting of execute() calls after which the JavaScript stack overflows
MaxDepth == 6
\* number of host operations in one behaviour
MaxSteps == 2

(***************************************************************************)
(* The interpreter.  An evaluation threads the heap, the rawValues set and *)
(* the value or error it produced: [h, raw, v, args, err].                 *)
(***************************************************************************)
\* fixed heap ids: Object.prototype's functions, the implementations table
ObjToStringId    == 2
ObjConstructorId == 3
Implementations  == 4

\* heap ids of the host's objects
ReturnThisId == 10
ReturnArgId  == 11
ReturnLastId == 12
ThisId       == 13
ThisNestedId == 14
VarsId       == 15
LastId       == 16
VarsOId      == 17
DottedId     == 18
VarsThisId   == 19
VarsDollarId == 20
SharedA      == 21
SharedTwin   == 22
SharedEmpty  == 23

Throw(st, e) == [st EXCEPT !.err = e, !.v = Undef]

Return(st, v) == [st EXCEPT !.v = v]

Arg(args, i) == IF i <= Len(args) THEN args[i] ELSE Undef

\* the elements of an array from index i on ([command, ...params] takes i = 1)
ItemsFrom(h, arr, i) ==
  [j \in 1..(IF h[arr.n].len > i THEN h[arr.n].len - i ELSE 0) |->
     GetProp(h, arr, IdxStr[i + j])]

\* interpreter.ts isRawValue
isRawValue_structural(st, value) ==
  \/ ~IsArray(st.h, value)
  \/ \E r \in st.raw : /\ st.h[r].kind = "array"
                       /\ st.h[r].len = st.h[value.n].len
                       /\ st.h[r].props = st.h[value.n].props

isRawValue(st, value) == ~IsArray(st.h, value) \/ value.n \in st.raw

\* interpreter.ts getValue, for a string expression
getValue(h, expression, context) ==
  IF expression = "this" \/ StartsWith(expression, "this.")
     \/ StartsWith(expression, "this[")
    THEN LodashGet(h, context, expression)
  ELSE IF expression = "$" THEN GetProp(h, context, "lastValue")
  ELSE IF StartsWith(expression, "$.") \/ StartsWith(expression, "$[")
    THEN LodashGet(h, GetProp(h, context, "lastValue"), Substring(expression, 2))
  ELSE LodashGet(h, GetProp(h, context, "variables"), expression)

RECURSIVE Execute(_, _, _, _)
RECURSIVE Apply(_, _, _, _, _)
RECURSIVE EvalArgs(_, _, _, _, _)
RECURSIVE RunList(_, _, _, _, _, _, _)

\* call, lines 42-45: s2 is the evaluation after the arguments (s2.args)
CallInvoke(s2, functionToCall, callContext, d) ==
  IF s2.err # "none" THEN s2
  ELSE IF ~IsFunction(s2.h, functionToCall) THEN Throw(s2, "ExpectedFunction")
  ELSE Apply(s2, functionToCall, callContext, s2.args, d)

\* call, lines 37-41: params.map(...), with params = [] by default
CallParams(s1, context, functionToCall, callContext, params, d) ==
  IF ~IsNullish(params) /\ ~IsArray(s1.h, params) THEN Throw(s1, "TypeError")
  ELSE CallInvoke(IF IsNullish(params) THEN [s1 EXCEPT !.args = <<>>]
                  ELSE EvalArgs([s1 EXCEPT !.args = <<>>], context, params, 0, d),
                  functionToCall, callContext, d)

\* call, lines 26 and 32-35: the receiver of a call by path
CallContext(h, context, pathChunks) ==
  IF Len(pathChunks) > 1
    THEN getValue(h, JoinDot(SubSeq(pathChunks, 1, Len(pathChunks) - 1)), context)
    ELSE GetProp(h, context, "this")

\* call, lines 26-36: s1 is the evaluation of the function expression, s1.v
\* is callPathOrFunction; getValue of a value that is no string throws
CallTarget(s1, context, params, d) ==
  IF s1.err # "none" THEN s1
  ELSE IF ~IsFunction(s1.h, s1.v) /\ ~IsString(s1.v) THEN Throw(s1, "TypeError")
  ELSE CallParams(s1, context,
                  IF IsFunction(s1.h, s1.v) THEN s1.v
                  ELSE getValue(s1.h, s1.v.s, context),
                  IF IsFunction(s1.h, s1.v) THEN GetProp(s1.h, context, "this")
                  ELSE CallContext(s1.h, context, toPath(s1.v.s)),
                  params, d)

\* implementations.call
CmdCall(st, context, params, d) ==
  LET functionExpression == Arg(params, 1) IN
  CallTarget(IF IsString(functionExpression) THEN Return(st, functionExpression)
             ELSE Execute(st, functionExpression, context, d + 1),
             context, Arg(params, 2), d)

\* get, lines 55-58: s1.v is expressionToRead
GetRead(s1, context) ==
  IF s1.err # "none" THEN s1
  ELSE IF ~IsString(s1.v) THEN Throw(s1, "ExpectedString")
  ELSE Return(s1, getValue(s1.h, s1.v.s, context))

\* implementations.get
CmdGet(st, context, params, d) ==
  LET expression == Arg(params, 1) IN
  GetRead(IF IsString(expression) THEN Return(st, expression)
          ELSE Execute(st, expression, context, d + 1),
          context)

\* implementations.lambda
CmdLambda(st, context, params, d) ==
  Return([st EXCEPT !.h = Append(@, LambdaFn(context.n, Arg(params, 1),
                                              Arg(params, 2)))],
         Ref(NewId(st.h)))

\* set, lines 86-91: s1.v is valueToSet
SetWrite(s1, context, receiver) ==
  IF s1.err # "none" THEN s1
  ELSE IF ~IsString(receiver) THEN Throw(s1, "TypeError")
  ELSE IF StartsWith(receiver.s, "this.")
    THEN [s1 EXCEPT !.h = LodashSet(@, GetProp(@, context, "this"),
                                    Substring(receiver.s, 5), s1.v)]
  ELSE [s1 EXCEPT !.h = LodashSet(@, GetProp(@, context, "variables"),
                                  receiver.s, s1.v)]

\* implementations.set
CmdSet(st, context, params, d) ==
  LET valueExpression == Arg(params, 2) IN
  SetWrite(IF isRawValue(st, valueExpression) THEN Return(st, valueExpression)
           ELSE Execute(st, valueExpression, context, d + 1),
           context, Arg(params, 1))

\* implementations.value
CmdValue(st, context, params, d) ==
  LET expression == Arg(params, 1) IN
  Return([st EXCEPT !.raw =
            IF Truthy(expression) /\ IsRef(expression)
               /\ ~IsFunction(st.h, expression)
              THEN @ \cup {expression.n} ELSE @],
         expression)

\* lambda, lines 66-69: the properties of scopedVariables, one per parameter
\* name, the last of equal names winning
ScopedProps(nameList, args) ==
  [x \in {nameList[i] : i \in 1..Len(nameList)} |->
     LET last == CHOOSE i \in 1..Len(nameList) :
                   /\ nameList[i] = x
                   /\ \A j \in (i + 1)..Len(nameList) : nameList[j] # x
     IN  Arg(args, last)]

\* lambda, lines 70-73: { ...context, variables: scopedVariables }
SpreadContext(h, context, scopedVariables) ==
  Append(h, PlainObject([x \in DOMAIN h[context.n].props |->
                           IF x = "variables" THEN scopedVariables
                           ELSE h[context.n].props[x]]))

\* lambda, line 74, in the heap h that holds newContext as its last object
RunBody(st, h, script, d) == Execute([st EXCEPT !.h = h], script, Ref(Len(h)), d + 1)

\* the function lambda returns (interpreter.ts lines 65-75)
InvokeLambda(st, fn, args, d) ==
  LET context == Ref(st.h[fn.n].ctx)
      outer   == GetProp(st.h, context, "variables")
      names   == st.h[fn.n].params
  IN
  IF ~IsRef(outer) \/ ~IsArray(st.h, names) THEN Throw(st, "TypeError")
  ELSE
    RunBody(st,
            SpreadContext(
              Append(st.h,
                     [PlainObject(ScopedProps(
                        [i \in 1..st.h[names.n].len |->
                           ToKey(st.h, GetProp(st.h, names, IdxStr[i]))],
                        args))
                      EXCEPT !.proto = outer.n]),
              context, Ref(NewId(st.h))),
            st.h[fn.n].body, d)

\* Function.prototype.apply on the functions of the model
Apply(st, fn, receiver, args, d) ==
  LET f == st.h[fn.n] IN
  IF f.kind = "lambda" THEN InvokeLambda(st, fn, args, d)
  ELSE
    CASE f.code = "call"   -> CmdCall(st, Arg(args, 1), Tail(args), d)
      [] f.code = "get"    -> CmdGet(st, Arg(args, 1), Tail(args), d)
      [] f.code = "lambda" -> CmdLambda(st, Arg(args, 1), Tail(args), d)
      [] f.code = "set"    -> CmdSet(st, Arg(args, 1), Tail(args), d)
      [] f.code = "value"  -> CmdValue(st, Arg(args, 1), Tail(args), d)
      \* host functions
      [] f.code = "returnThis" -> Return(st, receiver)
      [] f.code = "returnArg"  -> Return(st, Arg(args, 1))
      [] f.code = "returnLast" -> Return(st, Ref(LastId))
      \* Object.prototype.toString and Object
      [] f.code = "objToString" ->
           Return(st, Str(IF IsNullish(receiver) THEN "[object Undefined]"
                          ELSE IF IsArray(st.h, receiver) THEN "[object Array]"
                          ELSE IF IsFunction(st.h, receiver)
                            THEN "[object Function]"
                          ELSE IF IsRef(receiver) THEN "[object Object]"
                          ELSE IF IsString(receiver) THEN "[object String]"
                          ELSE "[object Number]"))
      [] f.code = "objConstructor" ->
           IF IsRef(Arg(args, 1)) THEN Return(st, Arg(args, 1))
           ELSE Return([st EXCEPT !.h = Append(@, PlainObject(NoProps))],
                       Ref(NewId(st.h)))

\* call, line 37: the map callback's result s1.v becomes the next element
ArgsNext(s1, context, source, i, d) ==
  IF s1.err # "none" THEN s1
  ELSE EvalArgs([s1 EXCEPT !.args = Append(@, s1.v)], context, source, i + 1, d)

\* params.map(param => isRawValue(param) ? param : execute(param, context))
EvalArgs(st, context, source, i, d) ==
  IF i >= st.h[source.n].len THEN st
  ELSE
    LET param == GetProp(st.h, source, IdxStr[i + 1]) IN
    ArgsNext(IF isRawValue(st, param) THEN Return(st, param)
             ELSE Execute(st, param, context, d + 1),
             context, source, i, d)

\* a reduce callback that returns nothing: the accumulator is undefined
RunNext_noReturn(s1, context, list, i, n, d) ==
  IF s1.err # "none" THEN s1
  ELSE RunList(s1, context, list, i + 1, n, Undef, d)

\* execute, lines 136-139: what the reduce callback returns, s1.v, is the
\* accumulator of the next element
RunNext(s1, context, list, i, n, d) ==
  IF s1.err # "none" THEN s1
  ELSE RunList(s1, context, list, i + 1, n, s1.v, d)

\* execute, lines 137-139: the reduce callback on element i, in s0 where
\* contextWithDefaults.lastValue is the accumulator
RunStep(s0, context, list, i, n, d) ==
  LET expression == GetProp(s0.h, list, IdxStr[i + 1]) IN
  IF ~IsArray(s0.h, expression) THEN Throw(s0, "TypeError")
  ELSE
    LET command == GetProp(s0.h, expression, "0")
        impl    == IF IsString(command)
                     THEN Lookup(s0.h, Implementations, command.s)
                     ELSE Undef
    IN
    IF ~IsFunction(s0.h, impl) THEN Throw(s0, "TypeError")
    ELSE RunNext(Apply(s0, impl, Ref(Implementations),
                       <<context>> \o ItemsFrom(s0.h, expression, 1), d),
                 context, list, i, n, d)

\* expressionList.reduce(...) of execute, from element i with accumulator last
RunList(st, context, list, i, n, last, d) ==
  IF i >= n
    THEN Return([st EXCEPT !.h = PutProp(@, context.n, "lastValue", last)], last)
  ELSE IF IdxStr[i + 1] \notin DOMAIN st.h[list.n].props
    THEN RunList(st, context, list, i + 1, n, last, d)
  ELSE RunStep([st EXCEPT !.h = PutProp(@, context.n, "lastValue", last)],
               context, list, i, n, d)

\* interpreter.ts isSingleExpression
isSingleExpression(h, script) ==
  LET first == GetProp(h, script, "0") IN Truthy(first) /\ ~IsArray(h, first)

\* execute, lines 130-131: given ?? {}, as <<heap, value>>
OrEmptyObject(h, given) ==
  IF IsNullish(given) THEN <<Append(h, PlainObject(NoProps)), Ref(NewId(h))>>
  ELSE <<h, given>>

\* execute, lines 133-143, in the heap h3 that holds contextWithDefaults as
\* its last object
ExecuteList(st, h3, script, d) ==
  LET single == isSingleExpression(h3, script) IN
  IF IsNullish(script) THEN Throw([st EXCEPT !.h = h3], "TypeError")
  ELSE IF ~single /\ ~IsArray(h3, script)
    THEN Throw([st EXCEPT !.h = h3], "TypeError")
  ELSE RunList([st EXCEPT !.h = IF single
                                  THEN Append(h3, ArrayObject("0" :> script, 1))
                                  ELSE h3],
               Ref(Len(h3)),
               IF single THEN Ref(Len(h3) + 1) ELSE script,
               0,
               IF single THEN 1 ELSE h3[script.n].len,
               Undef, d)

\* interpreter.ts execute
Execute(st, script, executionContext, d) ==
  IF d > MaxDepth THEN Throw(st, "RangeError")
  ELSE
    LET givenThis == IF IsNullish(executionContext) THEN Undef
                     ELSE GetProp(st.h, executionContext, "this")
        givenVars == IF IsNullish(executionContext) THEN Undef
                     ELSE GetProp(st.h, executionContext, "variables")
        this      == OrEmptyObject(st.h, givenThis)
        variables == OrEmptyObject(this[1], givenVars)
    IN  ExecuteList(st,
                    Append(variables[1],
                           PlainObject(("this" :> this[2])
                                       @@ ("variables" :> variables[2]))),
                    script, d)

(***************************************************************************)
(* The host: the objects it hands to execute() and the scripts it runs.    *)
(***************************************************************************)
\* script literals: a value, or an array literal of literals
A(items) == [k |-> "arr", items |-> items]
S(x) == Str(x)

RECURSIVE AllocLit(_, _)
RECURSIVE AllocItems(_, _, _, _)
\* builds the array objects of a literal; returns <<heap, value>>
AllocLit(h, lit) ==
  IF lit.k # "arr" THEN <<h, lit>>
  ELSE LET r == AllocItems(h, lit.items, 1, NoProps) IN
         <<Append(r[1], ArrayObject(r[2], Len(lit.items))), Ref(Len(r[1]) + 1)>>

AllocItems(h, items, i, props) ==
  IF i > Len(items) THEN <<h, props>>
  ELSE LET r == AllocLit(h, items[i]) IN
         AllocItems(r[1], items, i + 1, (IdxStr[i] :> r[2]) @@ props)

BaseHeap == <<
  \* 1: Object.prototype
  PlainObject(("toString" :> Ref(ObjToStringId))
              @@ ("constructor" :> Ref(ObjConstructorId))),
  NativeFn("objToString"),
  NativeFn("objConstructor"),
  \* 4: implementations (interpreter.ts line 14)
  PlainObject(("call" :> Ref(5)) @@ ("get" :> Ref(6)) @@ ("lambda" :> Ref(7))
              @@ ("set" :> Ref(8)) @@ ("value" :> Ref(9))),
  NativeFn("call"), NativeFn("get"), NativeFn("lambda"), NativeFn("set"),
  NativeFn("value"),
  \* 10, 11, 12: host functions
  NativeFn("returnThis"),
  NativeFn("returnArg"),
  NativeFn("returnLast"),
  \* 13: the context object the host passes as `this`
  PlainObject(("a" :> Num(11)) @@ ("0" :> Num(12)) @@ ("key" :> Str("b"))
              @@ ("m" :> Ref(ReturnThisId)) @@ ("n" :> Ref(ThisNestedId))
              @@ ("getL" :> Ref(ReturnLastId))),
  \* 14: this.n
  PlainObject(("p" :> Num(13)) @@ ("m" :> Ref(ReturnThisId))),
  \* 15: the variables mapping the host passes
  PlainObject(("a" :> Num(21)) @@ ("b" :> Num(22)) @@ ("$a" :> Num(23))
              @@ ("f" :> Ref(ReturnThisId)) @@ ("id" :> Ref(ReturnArgId))
              @@ ("o" :> Ref(VarsOId)) @@ ("this" :> Ref(VarsThisId))
              @@ ("$" :> Ref(VarsDollarId))),
  \* 16: the object this.getL() returns, which scripts make the last value
  PlainObject(("a" :> Num(31)) @@ ("0" :> Num(32)) @@ ("m" :> Ref(ReturnThisId))),
  \* 17: variables.o
  PlainObject(("m" :> Ref(ReturnThisId)) @@ ("a.b" :> Ref(DottedId))),
  \* 18: variables.o['a.b']
  PlainObject(("f" :> Ref(ReturnThisId))),
  \* 19: variables.this
  PlainObject(("a" :> Num(25)) @@ ("0" :> Num(26)) @@ ("m" :> Ref(ReturnThisId))),
  \* 20: variables.$
  PlainObject(("a" :> Num(27)) @@ ("m" :> Ref(ReturnThisId))),
  \* 21, 22: two arrays ['get', 'a'] that are equal but not identical
  ArrayObject(("0" :> Str("get")) @@ ("1" :> Str("a")), 2),
  ArrayObject(("0" :> Str("get")) @@ ("1" :> Str("a")), 2),
  \* 23: an empty array
  ArrayObject(NoProps, 0)
>>

\* path strings the host's scripts read
GetPaths == {"this", "this.a", "this.n.p", "this[0]",
             "$", "$.a", "$[0]", "$a", "a", "o.zz.y"}

\* path strings the host's scripts call
CallPaths == {"this.m", "this.n.m", "f", "o.m", "$.m", "o['a.b'].f", "a"}

\* path strings the host's scripts write and read back
SetPaths == {"x", "a.b", "this.x", "this.n.q", "this[0]"}

\* the expressions the host combines into sequences
Exprs == <<
  A(<<S("set"), S("x"), Num(5)>>),
  A(<<S("get"), S("x")>>),
  A(<<S("set"), S("this.y"), A(<<S("get"), S("x")>>)>>),
  A(<<S("get"), S("this.y")>>)
>>

\* the sequences of expressions the host runs, as indices into Exprs
SeqInputs ==
  {<<i, j>> : i \in 1..Len(Exprs), j \in 1..Len(Exprs)}
  \cup {<<2, 1, 2>>, <<1, 3, 4>>}

SeqLit(seq) == A([i \in 1..Len(seq) |-> Exprs[seq[i]]])

\* the values the host's scripts use as value source or argument source
Sources == {Ref(SharedA), Ref(SharedTwin), Ref(SharedEmpty), Num(5)}

\* leading tags the host's scripts use
Tags == {"get", "foo", "toString"}

CommandNames == {"call", "get", "lambda", "set", "value"}

\* call targets that are not invocable
BadTargets == <<S("zz"), A(<<S("get"), S("zz")>>), A(<<S("value"), Num(5)>>)>>

VARIABLES heap, rawValues, result, error, op, pre, steps

vars == <<heap, rawValues, result, error, op, pre, steps>>

NoOp == [kind |-> "init", path |-> "", value |-> Undef, seq |-> <<>>]

Init ==
  /\ heap = BaseHeap
  /\ rawValues = {}
  /\ result = Undef
  /\ error = "none"
  /\ op = NoOp
  /\ pre = [h |-> BaseHeap, raw |-> {}]
  /\ steps = 0

StartState(h, raw) ==
  [h |-> h, raw |-> raw, v |-> Undef, args |-> <<>>, err |-> "none"]

\* the host builds a script and calls execute(script, { this: context,
\* variables }), or execute(script), in the realm <<h, raw>>
RunFrom(h, raw, lit, withContext) ==
  LET r0 == AllocLit(h, lit)
      h1 == IF withContext
              THEN Append(r0[1], PlainObject(("this" :> Ref(ThisId))
                                             @@ ("variables" :> Ref(VarsId))))
              ELSE r0[1]
      ec == IF withContext THEN Ref(Len(h1)) ELSE Undef
  IN  Execute(StartState(h1, raw), r0[2], ec, 0)

HostRun(lit, withContext) == RunFrom(heap, rawValues, lit, withContext)

Finish(r, o) ==
  /\ heap' = r.h
  /\ rawValues' = r.raw
  /\ result' = r.v
  /\ error' = r.err
  /\ op' = o
  /\ pre' = [h |-> heap, raw |-> rawValues]
  /\ steps' = steps + 1

GetL == A(<<S("call"), S("this.getL")>>)

\* execute([['call', 'this.getL'], ['get', path]])
HostGet(path) ==
  /\ steps < MaxSteps
  /\ Finish(HostRun(A(<<GetL, A(<<S("get"), S(path)>>)>>), TRUE),
            [NoOp EXCEPT !.kind = "get", !.path = path])

\* execute([['call', 'this.getL'], ['call', path]])
HostCall(path) ==
  /\ steps < MaxSteps
  /\ Finish(HostRun(A(<<GetL, A(<<S("call"), S(path)>>)>>), TRUE),
            [NoOp EXCEPT !.kind = "call", !.path = path])

\* execute([['set', path, 5], ['get', path]])
HostSetGet(path) ==
  /\ steps < MaxSteps
  /\ Finish(HostRun(A(<<A(<<S("set"), S(path), Num(5)>>),
                        A(<<S("get"), S(path)>>)>>), TRUE),
            [NoOp EXCEPT !.kind = "setget", !.path = path, !.value = Num(5)])

\* execute of a sequence of expressions
HostSeq(seq) ==
  /\ steps < MaxSteps
  /\ Finish(HostRun(SeqLit(seq), TRUE), [NoOp EXCEPT !.kind = "seq", !.seq = seq])

\* execute([]) with and without a context
HostEmpty(withContext) ==
  /\ steps < MaxSteps
  /\ Finish(HostRun(A(<<>>), withContext),
            [NoOp EXCEPT !.kind = "empty",
                         !.path = IF withContext THEN "context" ELSE "default"])

\* execute(['value', payload])
HostValue(payload) ==
  /\ steps < MaxSteps
  /\ Finish(HostRun(A(<<S("value"), payload>>), TRUE),
            [NoOp EXCEPT !.kind = "value", !.value = payload])

\* execute(['set', 'p', source]) and execute(['call', 'id', [source]])
HostSource(form, source) ==
  /\ steps < MaxSteps
  /\ Finish(HostRun(IF form = "set" THEN A(<<S("set"), S("p"), source>>)
                    ELSE A(<<S("call"), S("id"), A(<<source>>)>>), TRUE),
            [NoOp EXCEPT !.kind = "source", !.path = form, !.value = source])

\* execute(['set', 'p', ['value', payload]])
HostSetValue(payload) ==
  /\ steps < MaxSteps
  /\ Finish(HostRun(A(<<S("set"), S("p"), A(<<S("value"), payload>>)>>), TRUE),
            [NoOp EXCEPT !.kind = "setvalue", !.value = payload])

\* a sequence whose second expression reads $ as its own target, in its
\* value source or in an argument source
HostChain(place) ==
  /\ steps < MaxSteps
  /\ Finish(HostRun(A(<<GetL,
                        CASE place = "target" -> A(<<S("get"), S("$")>>)
                          [] place = "value"  ->
                               A(<<S("set"), S("w"), A(<<S("get"), S("$")>>)>>)
                          [] place = "argument" ->
                               A(<<S("call"), S("id"),
                                   A(<<A(<<S("get"), S("$")>>)>>)>>)>>), TRUE),
            [NoOp EXCEPT !.kind = "chain", !.path = place])

\* two lambdas of one scope: inc writes a variable, rd reads it; after inc
\* ran, the variable is read by rd or by the enclosing scope
HostShare(reader, receiver) ==
  /\ steps < MaxSteps
  /\ Finish(HostRun(A(<<
        A(<<S("set"), S("inc"),
            A(<<S("lambda"), A(<<>>), A(<<A(<<S("set"), S(receiver), Num(9)>>)>>)>>)>>),
        A(<<S("set"), S("rd"),
            A(<<S("lambda"), A(<<>>), A(<<A(<<S("get"), S(receiver)>>)>>)>>)>>),
        A(<<S("call"), S("inc")>>),
        IF reader = "lambda" THEN A(<<S("call"), S("rd")>>)
        ELSE A(<<S("get"), S(receiver)>>)>>), TRUE),
            [NoOp EXCEPT !.kind = "share", !.path = reader, !.value = Str(receiver)])

\* execute([['call', 'this.getL'], ['lambda', [], [['get', path]]]])
HostMakeLambda(path) ==
  /\ steps < MaxSteps
  /\ Finish(HostRun(A(<<GetL, A(<<S("lambda"), A(<<>>),
                                  A(<<A(<<S("get"), S(path)>>)>>)>>)>>), TRUE),
            [NoOp EXCEPT !.kind = "lambda", !.path = path])

\* the host later calls the function the last script returned, as a method of
\* an object of its own
HostInvoke ==
  /\ steps < MaxSteps
  /\ op.kind = "lambda"
  /\ error = "none"
  /\ Finish(Apply(StartState(heap, rawValues), result, Ref(VarsOId), <<Num(1)>>, 0),
            [NoOp EXCEPT !.kind = "invoke", !.path = op.path])

\* execute([tag, 'a'])
HostTag(tag) ==
  /\ steps < MaxSteps
  /\ Finish(HostRun(A(<<S(tag), S("a")>>), TRUE),
            [NoOp EXCEPT !.kind = "tag", !.path = tag])

\* execute(['call', target, [['set', 'w', 1], ['set', 'this.w', 2]]])
HostCallBad(i) ==
  /\ steps < MaxSteps
  /\ Finish(HostRun(A(<<S("call"), BadTargets[i],
                        A(<<A(<<S("set"), S("w"), Num(1)>>),
                            A(<<S("set"), S("this.w"), Num(2)>>)>>)>>), TRUE),
            [NoOp EXCEPT !.kind = "callbad", !.seq = <<i>>])

Next ==
  \/ \E p \in GetPaths : HostGet(p)
  \/ \E p \in CallPaths : HostCall(p)
  \/ \E p \in SetPaths : HostSetGet(p)
  \/ \E seq \in SeqInputs : HostSeq(seq)
  \/ \E c \in BOOLEAN : HostEmpty(c)
  \/ \E s \in Sources : HostValue(s)
  \/ \E form \in {"set", "call"}, s \in Sources : HostSource(form, s)
  \/ \E s \in Sources : HostSetValue(s)
  \/ \E place \in {"target", "value", "argument"} : HostChain(place)
  \/ \E reader \in {"lambda", "scope"}, r \in {"cnt", "this.cnt"} :
       HostShare(reader, r)
  \/ \E p \in {"$", "this", "a"} : HostMakeLambda(p)
  \/ HostInvoke
  \/ \E tag \in Tags : HostTag(tag)
  \/ \E i \in 1..Len(BadTargets) : HostCallBad(i)

Spec == Init /\ [][Next]_vars

(***************************************************************************)
(* Properties                                                              *)
(***************************************************************************)
\* v[s1][s2]... , undefined as soon as a value on the way is undefined
RECURSIVE Walk(_, _, _)
Walk(h, v, segs) ==
  IF Len(segs) = 0 THEN v
  ELSE IF IsNullish(v) THEN Undef
  ELSE Walk(h, GetProp(h, v, Head(segs)), Tail(segs))

OwnProp(h, id, key) ==
  IF key \in DOMAIN h[id].props THEN h[id].props[key] ELSE [k |-> "absent", n |-> 0, s |-> ""]

\* C1: a sequence of expressions gives the result and leaves `this` and the
\* variables as running its last expression after the sequence of the others
\* does (so expression k sees the writes of expressions 1..k-1, in order), a
\* write followed by a read of the same variable returns the value written,
\* and the empty sequence returns undefined and changes no object and no
\* raw-value mark.
C1_SequenceLeftToRight ==
  /\ op.kind = "seq" =>
       LET n      == Len(op.seq)
           before == RunFrom(pre.h, pre.raw, SeqLit(SubSeq(op.seq, 1, n - 1)), TRUE)
           alone  == RunFrom(before.h, before.raw, SeqLit(<<op.seq[n]>>), TRUE)
       IN  /\ error = "none" /\ alone.err = "none"
           /\ result = alone.v
           /\ heap[ThisId] = alone.h[ThisId]
           /\ heap[VarsId] = alone.h[VarsId]
           /\ op.seq \in {<<1, 2>>, <<2, 1, 2>>} => result = Num(5)
           /\ op.seq = <<1, 3>> => OwnProp(heap, ThisId, "y") = Num(5)
  /\ op.kind = "empty" =>
       /\ error = "none"
       /\ result = Undef
       /\ SubSeq(heap, 1, Len(pre.h)) = pre.h
       /\ rawValues = pre.raw

\* a sequence whose first expression reads a variable unset so far and whose
\* second expression writes it has run in order and returned the last result
C1_Witness ==
  /\ op.kind = "seq" /\ op.seq = <<2, 1>>
  /\ "x" \notin DOMAIN pre.h[VarsId].props
  /\ result = Num(5)

\* the root the code reads a path from
RootOfPath(p) ==
  IF p = "this" \/ StartsWith(p, "this.") \/ StartsWith(p, "this[") THEN Ref(ThisId)
  ELSE IF p = "$" \/ StartsWith(p, "$.") \/ StartsWith(p, "$[") THEN Ref(LastId)
  ELSE Ref(VarsId)

\* the root the claim reads a path from
ClaimedRoot(p) ==
  IF p = "this" \/ StartsWith(p, "this.") THEN Ref(ThisId)
  ELSE IF StartsWith(p, "$") THEN Ref(LastId)
  ELSE Ref(VarsId)

\* the segments the claim follows from that root: the path without its root
\* segment for a `this` or `$` path, the whole path for a variables path
ClaimedSegs(p) ==
  IF ClaimedRoot(p) = Ref(VarsId) THEN toPath(p)
  ELSE IF StartsWith(p, "$") /\ Len(p) > 1 /\ CharAt(p, 2) \notin {".", "["}
    THEN toPath(Substring(p, 1))
  ELSE Tail(toPath(p))

\* C2: a path read by get is resolved against the root its prefix names:
\* `this` and `this.` paths against this, every path that starts with $
\* against the last value, every other path against variables; `this` and `$`
\* alone give the whole root, and a missing path gives undefined, no error.
C2_Claim ==
  op.kind = "get" =>
    /\ error = "none"
    /\ result = Walk(heap, ClaimedRoot(op.path), ClaimedSegs(op.path))

\* the value at a path with its last segment removed
ParentOfPath(h, p) ==
  LET chunks == toPath(p)
      upTo   == SubSeq(chunks, 1, Len(chunks) - 1)
  IN  IF RootOfPath(p) = Ref(VarsId) THEN Walk(h, Ref(VarsId), upTo)
      ELSE Walk(h, RootOfPath(p), Tail(upTo))

\* C3: a call by path of more than one segment runs the function with the
\* value at the path without its last segment as receiver, whatever the root
\* and the segment names; a call by a one-segment path runs it with the
\* context's `this`.  (Every function the host's scripts call returns its
\* receiver.)
C3_Claim ==
  (op.kind = "call" /\ error = "none") =>
    result = IF Len(toPath(op.path)) > 1 THEN ParentOfPath(heap, op.path)
             ELSE Ref(ThisId)

\* C4: set p v returns v and the get p evaluated next returns v, for every
\* receiver path p not rooted at $.
C4_Claim ==
  op.kind = "setget" => (error = "none" /\ result = op.value)

\* C5: an array used as value source of set or argument source of call is
\* evaluated as a script unless that very array object was the payload of an
\* earlier value expression, then it is used as it is; a source that is not
\* an array is used as it is; set p [] assigns undefined and
\* set p ['value', arr] assigns and returns arr itself and marks it.
C5_RawByIdentity ==
  /\ op.kind = "source" =>
       LET source   == op.value
           verbatim == ~IsArray(pre.h, source) \/ source.n \in pre.raw
           expected == IF verbatim THEN source
                       ELSE IF source = Ref(SharedEmpty) THEN Undef
                       ELSE LodashGet(pre.h, Ref(VarsId), "a")
       IN  /\ error = "none"
           /\ result = expected
           /\ op.path = "set" => OwnProp(heap, VarsId, "p") = expected
           /\ rawValues = pre.raw
  /\ op.kind = "setvalue" =>
       /\ error = "none"
       /\ result = op.value
       /\ OwnProp(heap, VarsId, "p") = op.value
  /\ op.kind \in {"value", "setvalue"} =>
       /\ result = op.value
       /\ rawValues = pre.raw \cup (IF IsRef(op.value) THEN {op.value.n} ELSE {})

\* an array marked by a value expression of an earlier execute call was used
\* as it is, not evaluated
C5_Witness ==
  /\ op.kind = "source"
  /\ op.value = Ref(SharedA)
  /\ SharedA \in pre.raw
  /\ result = Ref(SharedA)

\* C6: every $ path read while the expression after expression k is
\* evaluated, as its own target, in its value source or in an argument
\* source, gives the result of expression k.
C6_Claim ==
  (op.kind = "chain" /\ error = "none") => result = Ref(LastId)

\* C7: after one lambda of a scope has set a variable, another lambda of the
\* same scope and the enclosing scope itself read the value written.
C7_Claim ==
  (op.kind = "share" /\ error = "none") => result = Num(9)

\* C8: however and whenever a lambda is invoked, `this` paths of its body
\* read the `this` of the creating context and a $ path read by the first
\* expression of its body gives the last value current at its creation.
C8_Claim ==
  (op.kind = "invoke" /\ error = "none") =>
    /\ op.path = "this" => result = Ref(ThisId)
    /\ op.path = "$" => result = Ref(LastId)

\* C9: an expression whose leading tag is none of call, get, lambda, set and
\* value fails with the UnknownCommand error and gives no result.
C9_Claim ==
  (op.kind = "tag" /\ op.path \notin CommandNames) =>
    (error = "UnknownCommand" /\ result = Undef)

\* C10: a call whose target is not invocable fails only after all its
\* argument sources were evaluated: their writes to `this` and variables
\* are in effect after the failure.
C10_Claim ==
  op.kind = "callbad" =>
    /\ error # "none"
    /\ OwnProp(heap, VarsId, "w") = Num(1)
    /\ OwnProp(heap, ThisId, "w") = Num(2)

====
